---- MODULE Spec2Model ----
(***************************************************************************)
(* goexpress: an HTTP router on top of http.ServeMux with global, group    *)
(* and route middleware (router.go) and the status-capturing response      *)
(* writer used by the request logger, in its two implementations           *)
(* (middleware.go and unnamed/part_011).                                   *)
(*                                                                         *)
(* Strings are sequences of one-character strings, so that path            *)
(* normalisation is computed and not assumed.  Middleware slices are Go    *)
(* slices: a reference to a backing array on a heap plus a length, the     *)
(* capacity being the length of the backing array.  Middleware and handler *)
(* values are opaque to the router (it never compares them), so every call *)
(* is given values not used before: a run with repeated values is the      *)
(* image of such a run under a renaming.                                   *)
(***************************************************************************)
EXTENDS Integers, Sequences, FiniteSets, TLC

VARIABLES
    routers,    \* every Router value created so far; routers[1] is New()
    arrays,     \* heap of backing arrays of the middlewares slices
    mux,        \* the http.ServeMux instances: mux[i] is a set of registrations
    stack,      \* Group calls whose fn is running, innermost last
    hist,       \* per router: who created it and what was passed to Group/Use
    regs,       \* log of completed route registrations, in call order
    last,       \* the last operation and what it returned or observed
    panicked,   \* a panic has left a call on the router (a registration with a
                \* pattern the mux holds, a handler nothing recovered)
    sw,         \* the statusWriter of the request in flight through LogRequest
    rw,         \* the underlying http.ResponseWriter of that request
    lpc,        \* where LogRequest's handler function is
    logged,     \* status_code attributes of the records LogRequest emitted
    wcalls,     \* the codes statusWriter.WriteHeader was called with, in order
    hcalls,     \* the calls the handler made on the writer it was given, in order
    req,        \* the request in flight through LogRequest: the body it came
                \* with, its Body now, the calls of next made for it
    errors,     \* the error records LogRequest emitted for the request
    conc        \* the requests served concurrently: the statusWriters
                \* allocated, the ResponseWriter of each request, and each
                \* request's position, wrapper, calls and log record

vars == <<routers, arrays, mux, stack, hist, regs, last, panicked, sw, rw, lpc, logged, wcalls, hcalls,
          req, errors, conc>>
routerVars == <<routers, arrays, mux, stack, hist, regs, last, panicked>>
writerVars == <<sw, rw, lpc, logged, wcalls, hcalls, req, errors, conc>>

----------------------------------------------------------------------------
(* Bounds and input sets *)

MaxOps == 4         \* Use, Group and route registration calls in one run
MaxCalls == 3       \* WriteHeader and Write calls of one handler
MaxServeOps == 3    \* Use, Static, NotFound and route registration calls before requests
MaxLen == 4         \* characters of a path given to normalizePath
MaxBody == 3        \* bytes of a request body
MaxConcCalls == 2   \* calls a handler makes on its writer when requests are
                    \* served at the same time
MaxRouters == MaxOps + 1
MaxArrays == MaxRouters + 1

Methods == {"GET", "POST"}

\* "/u"
PathU == <<"/", "u">>
\* "/a"
PrefixA == <<"/", "a">>
\* "/s", the prefix the file server is mounted at
PathS == <<"/", "s">>
\* the paths of the requests: "/", "/u", "/u/", "/x", "/s", "/s/f"
RequestPaths == {<<"/">>, PathU, PathU \o <<"/">>, <<"/", "x">>, PathS, PathS \o <<"/", "f">>}
\* "/", "//x/", "/a/../x", ""
Paths == {<<"/">>, <<"/", "/", "x", "/">>,
          <<"/", "a", "/", ".", ".", "/", "x">>, <<>>}
\* "/a", "/u/", "a"
GroupPrefixes == {PrefixA, <<"/", "u", "/">>, <<"a">>}
\* the characters of the paths given to normalizePath
Alphabet == {"/", "a", "."}
\* every string over Alphabet of at most MaxLen characters
PathInputs == UNION {[1..k -> Alphabet] : k \in 0..MaxLen}
\* the bytes of request bodies
Bytes == {"a", "b"}
\* the errors a Read of a request body fails with
Causes == {<<"test error">>, <<"unexpected EOF">>}
\* the bodies of the requests through LogRequest: none, "a", and one whose
\* read fails at once
LoggedBodies ==
    {[kind |-> "nil", data |-> <<>>, failAfter |-> -1, cause |-> <<>>],
     [kind |-> "reader", data |-> <<"a">>, failAfter |-> -1, cause |-> <<>>],
     [kind |-> "reader", data |-> <<"a">>, failAfter |-> 0, cause |-> <<"test error">>]}
\* the requests served at the same time
Requests == {1, 2}
\* the codes a handler passes to WriteHeader: Created, Not Found, Internal
\* Server Error
StatusCodes == {201, 404, 500}
\* the two statusWriter implementations: the one that forwards only the first
\* WriteHeader (middleware.go) and the one that forwards every WriteHeader and
\* has a Write of its own (unnamed/part_011)
Impls == {"guarded", "forwarding"}

----------------------------------------------------------------------------
(* Strings *)

RECURSIVE SplitFrom(_, _, _, _)
SplitFrom(s, i, cur, acc) ==
    IF i > Len(s) THEN Append(acc, cur)
    ELSE IF s[i] = "/" THEN SplitFrom(s, i + 1, <<>>, Append(acc, cur))
    ELSE SplitFrom(s, i + 1, Append(cur, s[i]), acc)

\* strings.Split(s, "/")
Split(s) == SplitFrom(s, 1, <<>>, <<>>)

RECURSIVE Join(_)
\* strings.Join(segs, "/")
Join(segs) ==
    IF Len(segs) = 0 THEN <<>>
    ELSE IF Len(segs) = 1 THEN segs[1]
    ELSE segs[1] \o <<"/">> \o Join(Tail(segs))

DotDot == <<".", ".">>

RECURSIVE CleanSegs(_, _, _, _)
\* the element loop of path.Clean: drop empty and "." elements, let ".."
\* remove the element before it (dropped at the root, kept when a relative
\* path has nothing left to remove)
CleanSegs(segs, i, out, rooted) ==
    IF i > Len(segs) THEN out
    ELSE LET e == segs[i] IN
         IF e = <<>> \/ e = <<".">> THEN CleanSegs(segs, i + 1, out, rooted)
         ELSE IF e = DotDot THEN
              IF Len(out) > 0 /\ out[Len(out)] # DotDot
              THEN CleanSegs(segs, i + 1, SubSeq(out, 1, Len(out) - 1), rooted)
              ELSE IF rooted THEN CleanSegs(segs, i + 1, out, rooted)
              ELSE CleanSegs(segs, i + 1, Append(out, e), rooted)
         ELSE CleanSegs(segs, i + 1, Append(out, e), rooted)

\* path.Clean
Clean(p) ==
    IF p = <<>> THEN <<".">>
    ELSE LET rooted == p[1] = "/"
             body == Join(CleanSegs(Split(p), 1, <<>>, rooted))
             res == IF rooted THEN <<"/">> \o body ELSE body
         IN IF res = <<>> THEN <<".">> ELSE res

\* the path normalisation of handleMethod: "/" for the empty path, one
\* trailing slash trimmed
normalizePathTrim(p) ==
    IF p = <<>> THEN <<"/">>
    ELSE IF p # <<"/">> /\ p[Len(p)] = "/" THEN SubSeq(p, 1, Len(p) - 1)
    ELSE p

normalizePath(p) ==
    IF p = <<>> THEN <<"/">>
    ELSE LET c == Clean(<<"/">> \o p)
         IN IF c = <<".">> THEN <<"/">> ELSE c

----------------------------------------------------------------------------
(* The http.ResponseWriter handlers and middleware write to *)

StatusOK == 200

\* nothing written yet; received is the WriteHeader calls made on it
NewResponseWriter ==
    [wroteHeader |-> FALSE, code |-> 0, received |-> <<>>, writes |-> 0,
     location |-> <<>>]

\* ResponseWriter.WriteHeader: the first status is committed, a later call is
\* superfluous and changes nothing that is sent
ResponseWriteHeader(w, code) ==
    [w EXCEPT !.received = Append(@, code),
              !.code = IF w.wroteHeader THEN @ ELSE code,
              !.wroteHeader = TRUE]

\* ResponseWriter.Write: commits 200 when no status was written before
ResponseWrite(w) ==
    [w EXCEPT !.code = IF w.wroteHeader THEN @ ELSE StatusOK,
              !.wroteHeader = TRUE,
              !.writes = @ + 1]

\* http.Error: the status, then the text as the body
Error(w, code) == ResponseWrite(ResponseWriteHeader(w, code))

\* http.Redirect: the Location header, the status, a body
Redirect(w, url, code) ==
    Error([w EXCEPT !.location = IF w.wroteHeader THEN @ ELSE url], code)

----------------------------------------------------------------------------
(* Handlers and middleware *)

\* a caller-supplied terminal http.Handler
Terminal(h) == [kind |-> "H", name |-> h, next |-> <<>>]

\* a Middleware applied to the next handler: the handler it returns
Apply(m, next) == [kind |-> "M", name |-> m, next |-> next]

RECURSIVE wrapLoop(_, _, _)
wrapLoop(finalHandler, middlewares, i) ==
    IF i < 1 THEN finalHandler
    ELSE wrapLoop(Apply(middlewares[i], finalHandler), middlewares, i - 1)

RECURSIVE wrapLoopForward(_, _, _)
wrapLoopForward(finalHandler, middlewares, i) ==
    IF i > Len(middlewares) THEN finalHandler
    ELSE wrapLoopForward(Apply(middlewares[i], finalHandler), middlewares, i + 1)

\* a wrap whose loop runs from the first middleware to the last
wrapForward(handler, middlewares) == wrapLoopForward(handler, middlewares, 1)

wrap(handler, middlewares) == wrapLoop(handler, middlewares, Len(middlewares))

\* http.StripPrefix(prefix, next)
StripPrefix(prefix, next) == [kind |-> "S", name |-> prefix, next |-> next]

\* Middleware and handler values with a behaviour of their own; every other
\* middleware value acts, calls next and acts again, every other handler
\* value writes a body
StripTrailingSlashes == 1
RecoverFromPanic == 2
\* the authMiddleware of the examples, for a request without a token
authMiddleware == 3
\* LogRequest of middleware.go as a Middleware value: the record "Request:"
\* after next returned
LogRequestMw == 4
\* RecoverPanic of example_test.go, RecoverFromPanic of unnamed/part_011
RecoverPanic == 5
\* LogRequest of example_test.go: the record "New Request" before next
LogNewRequest == 6
Recoveries == {RecoverFromPanic, RecoverPanic}
\* a handler that panics at once
panicHandler == 900
\* a handler that writes the status 201 and body bytes and then panics
latePanicHandler == 901
\* http.FileServer
FileServer == 902
\* handlers that answer with http.Error and the status they are named by
notFoundHandler == 404
goneHandler == 410
CustomHandlers == {notFoundHandler, goneHandler}

\* strings.HasSuffix(s, "/")
HasSuffixSlash(s) == Len(s) > 0 /\ s[Len(s)] = "/"

\* strings.TrimSuffix(s, "/")
TrimSuffixSlash(s) == IF HasSuffixSlash(s) THEN SubSeq(s, 1, Len(s) - 1) ELSE s

\* strings.TrimPrefix(s, prefix)
TrimPrefix(s, prefix) ==
    IF Len(prefix) <= Len(s) /\ SubSeq(s, 1, Len(prefix)) = prefix
    THEN SubSeq(s, Len(prefix) + 1, Len(s))
    ELSE s

\* a StripTrailingSlashes that redirects every path ending in a slash
redirectsRoot(path) == HasSuffixSlash(path)

\* StripTrailingSlashes redirects the request instead of calling next
redirects(path) == path # <<"/">> /\ HasSuffixSlash(path)

\* the value a handler passes to panic
PanicValue(name) == IF name = panicHandler THEN <<"test panic">> ELSE <<"late">>

\* no panic
NoFault == <<>>

\* fmt.Sprint(r) of the request
Sprint(path) == <<"&{">> \o path \o <<"}">>

\* the record slog.Error is given by the deferred function: middleware.go
\* logs "panic", fmt.Sprint(r) with r the request; unnamed/part_011 and
\* example_test.go log "reason", err with err the result of recover()
PanicRecord(name, err, path) ==
    [ev |-> "recover", n |-> name,
     key |-> IF name = RecoverFromPanic THEN "panic" ELSE "reason",
     value |-> IF name = RecoverFromPanic THEN Sprint(path) ELSE err,
     stack_trace |-> TRUE]

\* a recovery whose deferred function logs and lets the panic go on
recoveredRepanic(name, out, path) ==
    [out EXCEPT !.trace = @ \o <<PanicRecord(name, out.fault, path)>>]

\* the deferred function of the recovery middleware when next panicked:
\* recover() ends the panic and http.Error answers 500
recovered(name, out, path) ==
    [trace |-> out.trace \o <<PanicRecord(name, out.fault, path)>>,
     w |-> Error(out.w, 500), panic |-> FALSE, fault |-> NoFault]

\* a chain in which a middleware that returns without calling next aborts
\* the request
shortCircuitAbort(name, w) ==
    [trace |-> <<[ev |-> "stop", n |-> name]>>, w |-> w, panic |-> TRUE,
     fault |-> <<"abort">>]

\* a middleware that has written its response returns without calling next:
\* the handler it wraps is not entered, the call returns to its caller
shortCircuit(name, w) ==
    [trace |-> <<[ev |-> "stop", n |-> name]>>, w |-> w, panic |-> FALSE,
     fault |-> NoFault]

\* a terminal handler serving a request
RunHandler(name, path, w) ==
    LET here == <<[ev |-> "handler", n |-> name]>> IN
    IF name = panicHandler
    THEN [trace |-> here, w |-> w, panic |-> TRUE, fault |-> PanicValue(name)]
    ELSE IF name = latePanicHandler
    THEN [trace |-> here, w |-> ResponseWrite(ResponseWriteHeader(w, 201)), panic |-> TRUE,
          fault |-> PanicValue(name)]
    ELSE IF name \in CustomHandlers
    THEN [trace |-> here, w |-> Error(w, name), panic |-> FALSE, fault |-> NoFault]
    ELSE IF name = FileServer
    THEN [trace |-> <<[ev |-> "file", n |-> name, path |-> path]>>,
          w |-> ResponseWrite(w), panic |-> FALSE, fault |-> NoFault]
    ELSE [trace |-> here, w |-> ResponseWrite(w), panic |-> FALSE, fault |-> NoFault]

\* the record slog.Info is given by LogRequest
RequestRecord(name, path) == <<[ev |-> "log", n |-> name, path |-> path]>>

RECURSIVE Run(_, _, _)
\* ServeHTTP of a composed handler for a request with the given path and
\* ResponseWriter: what ran, what was written, and whether a panic leaves it
Run(h, path, w) ==
    IF h.kind = "H" THEN RunHandler(h.name, path, w)
    ELSE IF h.kind = "S"
    THEN IF TrimPrefix(path, h.name) = path /\ h.name # <<>>
         THEN [trace |-> <<>>, w |-> Error(w, 404), panic |-> FALSE, fault |-> NoFault]
         ELSE Run(h.next, TrimPrefix(path, h.name), w)
    ELSE LET pre == <<[ev |-> "pre", n |-> h.name]>>
             post == <<[ev |-> "post", n |-> h.name]>>
         IN
         IF h.name = StripTrailingSlashes
         THEN IF redirects(path)
              THEN shortCircuit(h.name, Redirect(w, TrimSuffixSlash(path), 301))
              ELSE LET out == Run(h.next, path, w)
                   IN [out EXCEPT !.trace = pre \o @]
         ELSE IF h.name = authMiddleware
         THEN shortCircuit(h.name, Error(w, 401))
         ELSE IF h.name \in Recoveries
         THEN LET out == Run(h.next, path, w)
              IN IF out.panic
                 THEN [recovered(h.name, out, path) EXCEPT !.trace = pre \o @]
                 ELSE [out EXCEPT !.trace = pre \o @]
         ELSE IF h.name = LogRequestMw
         THEN LET out == Run(h.next, path, w)
              IN IF out.panic
                 THEN [out EXCEPT !.trace = pre \o @]
                 ELSE [out EXCEPT !.trace = pre \o @ \o RequestRecord(h.name, path)]
         ELSE IF h.name = LogNewRequest
         THEN LET out == Run(h.next, path, w)
              IN [out EXCEPT !.trace = pre \o RequestRecord(h.name, path) \o @]
         ELSE LET out == Run(h.next, path, w)
              IN IF out.panic
                 THEN [out EXCEPT !.trace = pre \o @]
                 ELSE [out EXCEPT !.trace = pre \o @ \o post]

----------------------------------------------------------------------------
(* Go slices of Middleware *)

NilSlice == [arr |-> 0, len |-> 0]

Cap(heap, s) == IF s.arr = 0 THEN 0 ELSE Len(heap[s.arr])

\* the elements a slice shows
Elems(heap, s) == [i \in 1..s.len |-> heap[s.arr][i]]

FreeIds(heap) == {i \in DOMAIN heap : heap[i] = <<>>}

\* capacities a fresh backing array for n elements may get
AllocCaps(n) == {n, n + 1}

\* append(s, xs...): in place when the capacity suffices, else into a fresh
\* array; the set of [heap, slice] outcomes
AppendTo(heap, s, xs) ==
    LET n == s.len + Len(xs) IN
    IF n <= Cap(heap, s) THEN
        IF Len(xs) = 0 THEN {[heap |-> heap, slice |-> s]}
        ELSE {[heap |-> [heap EXCEPT ![s.arr] =
                            [i \in 1..Len(@) |->
                                IF i > s.len /\ i <= n THEN xs[i - s.len] ELSE @[i]]],
               slice |-> [arr |-> s.arr, len |-> n]]}
    ELSE
        LET id == CHOOSE i \in FreeIds(heap) : \A j \in FreeIds(heap) : i <= j
            old == Elems(heap, s)
        IN {[heap |-> [heap EXCEPT ![id] =
                          [i \in 1..c |-> IF i <= s.len THEN old[i]
                                          ELSE IF i <= n THEN xs[i - s.len]
                                          ELSE 0]],
             slice |-> [arr |-> id, len |-> n]] : c \in AllocCaps(n)}

\* The heap after garbage collection: arrays no Router refers to are freed,
\* and the addresses of the others are normalised (an address has no meaning
\* but identity): the arrays are numbered in the order of the routers that
\* refer to them.
Address(rs, r) ==
    LET a == rs[r].middlewares.arr
        first == CHOOSE q \in 1..r : rs[q].middlewares.arr = a /\
                     \A p \in 1..(q - 1) : rs[p].middlewares.arr # a
    IN IF a = 0 THEN 0
       ELSE Cardinality({rs[q].middlewares.arr : q \in 1..first} \ {0})

CollectRouters(rs) ==
    [r \in 1..Len(rs) |-> [rs[r] EXCEPT !.middlewares.arr = Address(rs, r)]]

CollectHeap(heap, rs) ==
    [i \in DOMAIN heap |->
        IF \E r \in 1..Len(rs) : Address(rs, r) = i
        THEN heap[rs[CHOOSE r \in 1..Len(rs) : Address(rs, r) = i].middlewares.arr]
        ELSE <<>>]

\* the global middleware list of router r
MwList(r) == Elems(arrays, routers[r].middlewares)

----------------------------------------------------------------------------
(* The statusWriter as a value *)

\* &statusWriter{ResponseWriter: w, status: http.StatusOK} for the writer of
\* request i, in the build with the given implementation
NewStatusWriter(impl, i) ==
    [impl |-> impl, status |-> StatusOK, headerSent |-> FALSE, rw |-> i]

\* statusWriter.WriteHeader on the wrapper w whose embedded ResponseWriter is
\* under: the wrapper and the ResponseWriter afterwards
StatusWriterWriteHeader(w, under, statusCode) ==
    IF w.impl = "guarded"
    THEN IF ~w.headerSent
         THEN [sw |-> [w EXCEPT !.status = statusCode, !.headerSent = TRUE],
               rw |-> ResponseWriteHeader(under, statusCode)]
         ELSE [sw |-> w, rw |-> under]
    ELSE [sw |-> IF ~w.headerSent
                 THEN [w EXCEPT !.status = statusCode, !.headerSent = TRUE]
                 ELSE w,
          rw |-> ResponseWriteHeader(under, statusCode)]

\* Write on the wrapper: the promoted Write of the embedded ResponseWriter in
\* middleware.go, statusWriter.Write in unnamed/part_011
StatusWriterWrite(w, under) ==
    IF w.impl = "guarded" \/ w.headerSent
    THEN [sw |-> w, rw |-> ResponseWrite(under)]
    ELSE LET res == StatusWriterWriteHeader(w, under, StatusOK)
         IN [sw |-> res.sw, rw |-> ResponseWrite(res.rw)]

\* no request is being served
NoRequests ==
    [sws |-> <<>>,
     rws |-> [i \in Requests |-> NewResponseWriter],
     reqs |-> [i \in Requests |-> [pc |-> "idle", sw |-> 0, calls |-> <<>>, logged |-> <<>>]]]

----------------------------------------------------------------------------
(* Request bodies *)

\* req.Body == nil
NilBody == [kind |-> "nil", data |-> <<>>, failAfter |-> -1, cause |-> <<>>]

\* an io.ReadCloser that yields data; when failAfter is not negative its Read
\* fails with cause after that many bytes, and from then on
Reader(data, failAfter, cause) ==
    [kind |-> "reader", data |-> data, failAfter |-> failAfter, cause |-> cause]

\* io.NopCloser(bytes.NewBuffer(b))
NewBuffer(b) == Reader(b, -1, <<>>)

\* the request bodies of the runs
Bodies ==
    {NilBody}
    \cup {NewBuffer(b) : b \in UNION {[1..k -> Bytes] : k \in 0..MaxBody}}
    \cup UNION {{Reader(b, n, c) : n \in 0..Len(b), c \in Causes} :
                   b \in UNION {[1..k -> Bytes] : k \in 0..MaxBody}}

\* io.ReadAll: the bytes read until EOF or the first error, that error, and
\* the reader as it is left
ReadAll(b) ==
    IF b.failAfter < 0
    THEN [bytes |-> b.data, err |-> <<>>, rest |-> [b EXCEPT !.data = <<>>]]
    ELSE [bytes |-> SubSeq(b.data, 1, b.failAfter), err |-> b.cause,
          rest |-> [b EXCEPT !.data = <<>>, !.failAfter = 0]]

\* fmt.Errorf("error reading request body: %w", err).Error()
Errorf(err) == <<"error reading request body: ">> \o err

\* parseRequestBody: the bytes and the error returned, and req.Body
\* afterwards; a body that failed stays in the request
parseRequestBody(body) ==
    IF body.kind = "nil" THEN [body |-> <<>>, err |-> <<>>, reqBody |-> body]
    ELSE LET r == ReadAll(body)
         IN IF r.err # <<>>
            THEN [body |-> <<>>, err |-> Errorf(r.err), reqBody |-> r.rest]
            ELSE [body |-> r.bytes, err |-> <<>>, reqBody |-> NewBuffer(r.bytes)]

\* a ReadRequestBody that leaves the body that failed in the request
ReadRequestBodyKeep(body) == parseRequestBody(body)

\* ReadRequestBody: the bytes and the error returned, and req.Body afterwards
ReadRequestBody(body) ==
    IF body.kind = "nil" THEN [body |-> <<>>, err |-> <<>>, reqBody |-> body]
    ELSE LET r == ReadAll(body)
         IN IF r.err # <<>>
            THEN [body |-> <<>>, err |-> Errorf(r.err), reqBody |-> NewBuffer(<<>>)]
            ELSE [body |-> r.bytes, err |-> <<>>, reqBody |-> NewBuffer(r.bytes)]

----------------------------------------------------------------------------
(* The router *)

\* routers a registration call can be made on: the root and the routers
\* handed to the fn of the Group calls in progress
Accessible == {1} \cup {stack[i].sub : i \in 1..Len(stack)}

Init ==
    /\ routers = <<[prefix |-> <<>>, mux |-> 1, routes |-> <<>>, middlewares |-> NilSlice]>>
    /\ arrays = [i \in 1..MaxArrays |-> <<>>]
    /\ mux = <<{}>>
    /\ stack = <<>>
    /\ hist = <<[parent |-> 0, seen |-> 0, inherited |-> <<>>, given |-> <<>>,
                 own |-> <<>>, prefixArg |-> <<>>]>>
    /\ regs = <<>>
    /\ last = [op |-> "New"]
    /\ panicked = FALSE
    /\ sw = [impl |-> "guarded", status |-> 0, headerSent |-> FALSE]
    /\ rw = NewResponseWriter
    /\ lpc = "idle"
    /\ logged = <<>>
    /\ wcalls = <<>>
    /\ hcalls = <<>>
    /\ req = [in |-> NilBody, body |-> NilBody, nexts |-> 0]
    /\ errors = <<>>
    /\ conc = NoRequests

\* a Use that also puts the middleware around the handlers registered so far
UseRewrap(r, mw) ==
    /\ ~panicked
    /\ r \in Accessible
    /\ \E res \in AppendTo(arrays, routers[r].middlewares, <<mw>>) :
        LET rs == [routers EXCEPT ![r].middlewares = res.slice]
        IN /\ routers' = CollectRouters(rs)
           /\ arrays' = CollectHeap(res.heap, rs)
    /\ mux' = [mux EXCEPT ![routers[r].mux] =
                  {[e EXCEPT !.handler = Apply(mw, @)] : e \in @}]
    /\ hist' = [hist EXCEPT ![r].own = Append(@, mw)]
    /\ last' = [op |-> "Use", router |-> r, mw |-> mw]
    /\ UNCHANGED <<stack, regs, panicked, writerVars>>

Use(r, mw) ==
    /\ ~panicked
    /\ r \in Accessible
    /\ \E res \in AppendTo(arrays, routers[r].middlewares, <<mw>>) :
        LET rs == [routers EXCEPT ![r].middlewares = res.slice]
        IN /\ routers' = CollectRouters(rs)
           /\ arrays' = CollectHeap(res.heap, rs)
    /\ hist' = [hist EXCEPT ![r].own = Append(@, mw)]
    /\ last' = [op |-> "Use", router |-> r, mw |-> mw]
    /\ UNCHANGED <<mux, stack, regs, panicked, writerVars>>

\* a handle that puts the global middleware inside the route middleware
finalHandlerRouteOutside(handler, mws, globals) ==
    wrap(wrap(Terminal(handler), globals), mws)

\* the handler handle registers: the route middleware around the handler,
\* the global middleware around that
finalHandler(handler, mws, globals) == wrap(wrap(Terminal(handler), mws), globals)

handle(r, method, p, handler, mws) ==
    LET fullPath == normalizePath(routers[r].prefix \o p)
        pattern == [method |-> method, path |-> fullPath]
        routeHandler == wrap(Terminal(handler), mws)
        final == finalHandler(handler, mws, MwList(r))
        newRoute == [method |-> method, path |-> fullPath,
                     handler |-> handler, middlewares |-> mws]
        m == routers[r].mux
    IN
    /\ ~panicked
    /\ r \in Accessible
    /\ IF \E e \in mux[m] : e.pattern = pattern
       THEN \* mux.Handle panics on a pattern registered twice
            /\ panicked' = TRUE
            /\ last' = [op |-> "panic", router |-> r, method |-> method, p |-> p]
            /\ UNCHANGED <<routers, arrays, mux, stack, hist, regs>>
       ELSE /\ mux' = [mux EXCEPT ![m] = @ \cup {[pattern |-> pattern, handler |-> final]}]
            /\ routers' = [routers EXCEPT ![r].routes = Append(@, newRoute)]
            /\ regs' = Append(regs, [via |-> "handle",
                                     router |-> r, method |-> method, p |-> p,
                                     path |-> fullPath, uses |-> Len(hist[r].own),
                                     globals |-> MwList(r), mws |-> mws, h |-> handler])
            /\ last' = [op |-> "handle", router |-> r, method |-> method, p |-> p,
                        handler |-> handler, mws |-> mws, globals |-> MwList(r),
                        routeHandler |-> routeHandler, finalHandler |-> final]
            /\ UNCHANGED <<arrays, stack, hist, panicked>>
    /\ UNCHANGED writerVars

Get(r, p, handler, mws) == handle(r, "GET", p, handler, mws)

Post(r, p, handler, mws) == handle(r, "POST", p, handler, mws)

\* mux.Handle(pattern, h) of Static and NotFound: the pattern has no method
muxHandle(r, via, p, path, handler, h) ==
    LET pattern == [method |-> "", path |-> path]
        m == routers[r].mux
    IN
    /\ ~panicked
    /\ r \in Accessible
    /\ IF \E e \in mux[m] : e.pattern = pattern
       THEN /\ panicked' = TRUE
            /\ last' = [op |-> "panic", router |-> r, method |-> "", p |-> p]
            /\ UNCHANGED <<mux, regs>>
       ELSE /\ mux' = [mux EXCEPT ![m] = @ \cup {[pattern |-> pattern, handler |-> h]}]
            /\ regs' = Append(regs, [via |-> via, router |-> r, method |-> "", p |-> p,
                                     path |-> path, uses |-> Len(hist[r].own),
                                     globals |-> MwList(r), mws |-> <<>>, h |-> handler])
            /\ last' = [op |-> via, router |-> r, p |-> p, globals |-> MwList(r),
                        finalHandler |-> h]
            /\ UNCHANGED panicked
    /\ UNCHANGED <<routers, arrays, stack, hist, writerVars>>

Static(r, prefix) ==
    LET fullPrefix == normalizePath(prefix)
        handler == StripPrefix(fullPrefix, Terminal(FileServer))
        wrappedHandler == wrap(handler, MwList(r))
        pattern == IF HasSuffixSlash(fullPrefix) THEN fullPrefix
                   ELSE fullPrefix \o <<"/">>
    IN muxHandle(r, "Static", prefix, pattern, FileServer, wrappedHandler)

\* a NotFound that registers http.NotFoundHandler whatever it is given
NotFoundDefault(r, handler) ==
    LET final == wrap(Terminal(notFoundHandler), MwList(r))
    IN muxHandle(r, "NotFound", <<"/">>, <<"/">>, handler, final)

\* a NotFound that registers the handler as it is given
NotFoundUnwrapped(r, handler) ==
    muxHandle(r, "NotFound", <<"/">>, <<"/">>, handler, Terminal(handler))

NotFound(r, handler) ==
    LET final == wrap(Terminal(handler), MwList(r))
    IN muxHandle(r, "NotFound", <<"/">>, <<"/">>, handler, final)

\* a Group that appends to the parent's slice itself (the Group of
\* unnamed/part_005): the result shares the parent's backing array when the
\* capacity suffices
GroupMiddlewaresShared(heap, parent, middlewares) ==
    AppendTo(heap, parent, middlewares)

\* a Group that puts its own middleware before the inherited ones
GroupMiddlewaresOwnFirst(heap, parent, middlewares) ==
    UNION {AppendTo(first.heap, first.slice, Elems(heap, parent)) :
              first \in AppendTo(heap, NilSlice, middlewares)}

\* a Group that inherits nothing
GroupMiddlewaresOwnOnly(heap, parent, middlewares) ==
    AppendTo(heap, NilSlice, middlewares)

\* the middlewares field of the Router that Group creates
GroupMiddlewares(heap, parent, middlewares) ==
    UNION {AppendTo(first.heap, first.slice, middlewares) :
              first \in AppendTo(heap, NilSlice, Elems(heap, parent))}

\* a Group that forgets the prefix of the router it is called on
GroupPrefixOwn(parentPrefix, prefix) == prefix

\* the prefix field of the Router that Group creates
GroupPrefix(parentPrefix, prefix) == parentPrefix \o prefix

\* a Group that gives the child a multiplexer of its own
GroupMuxOwn(parentMux) == parentMux + 1

\* the mux field of the Router that Group creates
GroupMux(parentMux) == parentMux

\* Group up to the call of fn
Group(r, prefix, middlewares) ==
    /\ ~panicked
    /\ r \in Accessible
    /\ \E res \in GroupMiddlewares(arrays, routers[r].middlewares, middlewares) :
        LET sub == [prefix |-> GroupPrefix(routers[r].prefix, prefix),
                    mux |-> GroupMux(routers[r].mux),
                    routes |-> <<>>,
                    middlewares |-> res.slice]
            rs == Append(routers, sub)
        IN /\ routers' = CollectRouters(rs)
           /\ arrays' = CollectHeap(res.heap, rs)
    /\ stack' = Append(stack, [parent |-> r, sub |-> Len(routers) + 1])
    /\ hist' = Append(hist, [parent |-> r, seen |-> Len(hist[r].own),
                             inherited |-> MwList(r), given |-> middlewares,
                             own |-> middlewares, prefixArg |-> prefix])
    /\ last' = [op |-> "Group", router |-> r, sub |-> Len(routers) + 1,
                prefix |-> prefix, mws |-> middlewares]
    /\ UNCHANGED <<mux, regs, panicked, writerVars>>

\* a Group that puts the routes of the child before those the parent holds
GroupReturnPrepend ==
    /\ ~panicked
    /\ Len(stack) > 0
    /\ LET top == stack[Len(stack)] IN
        /\ routers' = [routers EXCEPT ![top.parent].routes = routers[top.sub].routes \o @]
        /\ last' = [op |-> "GroupReturn", router |-> top.parent, sub |-> top.sub,
                    held |-> routers[top.parent].routes]
    /\ stack' = SubSeq(stack, 1, Len(stack) - 1)
    /\ UNCHANGED <<arrays, mux, hist, regs, panicked, writerVars>>

\* Group from the return of fn
GroupReturn ==
    /\ ~panicked
    /\ Len(stack) > 0
    /\ LET top == stack[Len(stack)] IN
        /\ routers' = [routers EXCEPT ![top.parent].routes = @ \o routers[top.sub].routes]
        /\ last' = [op |-> "GroupReturn", router |-> top.parent, sub |-> top.sub,
                    held |-> routers[top.parent].routes]
    /\ stack' = SubSeq(stack, 1, Len(stack) - 1)
    /\ UNCHANGED <<arrays, mux, hist, regs, panicked, writerVars>>

IsPrefixOf(a, b) == Len(a) <= Len(b) /\ SubSeq(b, 1, Len(a)) = a

\* http.ServeMux: the registrations a request matches
Matches(m, method, path) ==
    {e \in mux[m] :
        /\ e.pattern.method \in {"", method}
        /\ \/ e.pattern.path = path
           \/ /\ e.pattern.path[Len(e.pattern.path)] = "/"
              /\ IsPrefixOf(e.pattern.path, path)}

\* http.ServeMux: the most specific of the matching registrations
Best(es) ==
    CHOOSE e \in es : \A f \in es :
        \/ Len(e.pattern.path) > Len(f.pattern.path)
        \/ /\ Len(e.pattern.path) = Len(f.pattern.path)
           /\ (e.pattern.method = "" => f.pattern.method = "")

\* http.ServeMux: a request without a trailing slash that only a pattern with
\* the trailing slash matches exactly is redirected there
RedirectsToSlash(m, method, path) ==
    /\ ~HasSuffixSlash(path)
    /\ \A e \in Matches(m, method, path) : e.pattern.path # path
    /\ \E e \in Matches(m, method, path \o <<"/">>) : e.pattern.path = path \o <<"/">>

\* the response of the mux itself: a redirect, 405 or 404
MuxResponse(code, url) ==
    IF url = <<>> THEN Error(NewResponseWriter, code)
    ELSE Redirect(NewResponseWriter, url, code)

ServeHTTP(r, method, path) ==
    LET m == routers[r].mux
        found == Matches(m, method, path)
        other == UNION {Matches(m, x, path) : x \in Methods}
        out == Run(Best(found).handler, path, NewResponseWriter)
        none == [method |-> "", path |-> <<>>]
    IN
    /\ ~panicked
    /\ r \in Accessible
    /\ IF RedirectsToSlash(m, method, path)
       THEN /\ last' = [op |-> "ServeHTTP", router |-> r, method |-> method, path |-> path,
                        matched |-> FALSE, status |-> 301, pattern |-> none, trace |-> <<>>,
                        resp |-> MuxResponse(301, path \o <<"/">>)]
            /\ UNCHANGED panicked
       ELSE IF found # {}
       THEN /\ last' = [op |-> "ServeHTTP", router |-> r, method |-> method, path |-> path,
                        matched |-> TRUE,
                        status |-> IF out.w.wroteHeader THEN out.w.code ELSE StatusOK,
                        pattern |-> Best(found).pattern,
                        trace |-> out.trace, resp |-> out.w]
            /\ panicked' = out.panic
       ELSE /\ last' = [op |-> "ServeHTTP", router |-> r, method |-> method, path |-> path,
                        matched |-> FALSE, status |-> IF other # {} THEN 405 ELSE 404,
                        pattern |-> none, trace |-> <<>>,
                        resp |-> MuxResponse(IF other # {} THEN 405 ELSE 404, <<>>)]
            /\ UNCHANGED panicked
    /\ UNCHANGED <<routers, arrays, mux, stack, hist, regs, writerVars>>

----------------------------------------------------------------------------
(* LogRequest and its statusWriter *)

\* the calls the handler has made on the writer it was given
NumCalls == Len(hcalls)

\* a LogRequest that captures the body before it calls next, and answers 400
\* itself when the read fails
LogRequestParseFirst(impl, body) ==
    LET res == parseRequestBody(body)
        failed == impl = "forwarding" /\ res.err # <<>>
    IN
    /\ lpc \in {"idle", "done"}
    /\ sw' = [impl |-> impl, status |-> StatusOK, headerSent |-> FALSE]
    /\ rw' = IF failed THEN Error(NewResponseWriter, 400) ELSE NewResponseWriter
    /\ lpc' = IF failed THEN "done" ELSE "next"
    /\ logged' = <<>>
    /\ wcalls' = <<>>
    /\ hcalls' = <<>>
    /\ req' = [in |-> body, body |-> IF impl = "forwarding" THEN res.reqBody ELSE body,
               nexts |-> IF failed THEN 0 ELSE 1]
    /\ errors' = IF failed THEN <<res.err>> ELSE <<>>
    /\ UNCHANGED <<conc, routerVars>>

\* LogRequest up to the call of next: a statusWriter around the writer of a
\* new request
LogRequest(impl, body) ==
    /\ lpc \in {"idle", "done"}
    /\ sw' = [impl |-> impl, status |-> StatusOK, headerSent |-> FALSE]
    /\ rw' = NewResponseWriter
    /\ lpc' = "next"
    /\ logged' = <<>>
    /\ wcalls' = <<>>
    /\ hcalls' = <<>>
    /\ req' = [in |-> body, body |-> body, nexts |-> 1]
    /\ errors' = <<>>
    /\ UNCHANGED <<conc, routerVars>>

\* a WriteHeader that records every status it is given
WriteHeaderLastWins(statusCode) ==
    /\ lpc = "next"
    /\ sw.impl = "guarded"
    /\ sw' = [sw EXCEPT !.status = statusCode, !.headerSent = TRUE]
    /\ rw' = IF ~sw.headerSent THEN ResponseWriteHeader(rw, statusCode) ELSE rw
    /\ wcalls' = Append(wcalls, statusCode)
    /\ hcalls' = Append(hcalls, [call |-> "WriteHeader", code |-> statusCode])
    /\ UNCHANGED <<lpc, logged, req, errors, conc, routerVars>>

\* a WriteHeader that never marks the header as sent
WriteHeaderUnmarked(statusCode) ==
    /\ lpc = "next"
    /\ sw.impl = "guarded"
    /\ sw' = [sw EXCEPT !.status = statusCode]
    /\ rw' = ResponseWriteHeader(rw, statusCode)
    /\ wcalls' = Append(wcalls, statusCode)
    /\ hcalls' = Append(hcalls, [call |-> "WriteHeader", code |-> statusCode])
    /\ UNCHANGED <<lpc, logged, req, errors, conc, routerVars>>

\* statusWriter.WriteHeader of middleware.go
WriteHeader(statusCode) ==
    /\ lpc = "next"
    /\ sw.impl = "guarded"
    /\ IF ~sw.headerSent
       THEN /\ sw' = [sw EXCEPT !.status = statusCode, !.headerSent = TRUE]
            /\ rw' = ResponseWriteHeader(rw, statusCode)
       ELSE UNCHANGED <<sw, rw>>
    /\ wcalls' = Append(wcalls, statusCode)
    /\ hcalls' = Append(hcalls, [call |-> "WriteHeader", code |-> statusCode])
    /\ UNCHANGED <<lpc, logged, req, errors, conc, routerVars>>

\* statusWriter.WriteHeader of unnamed/part_011, as an update of <<sw, rw>>
WriteHeaderForwarded(w, under, statusCode) ==
    [sw |-> IF ~w.headerSent
            THEN [w EXCEPT !.status = statusCode, !.headerSent = TRUE]
            ELSE w,
     rw |-> ResponseWriteHeader(under, statusCode)]

\* statusWriter.WriteHeader of unnamed/part_011
WriteHeaderForwarding(statusCode) ==
    /\ lpc = "next"
    /\ sw.impl = "forwarding"
    /\ sw' = WriteHeaderForwarded(sw, rw, statusCode).sw
    /\ rw' = WriteHeaderForwarded(sw, rw, statusCode).rw
    /\ wcalls' = Append(wcalls, statusCode)
    /\ hcalls' = Append(hcalls, [call |-> "WriteHeader", code |-> statusCode])
    /\ UNCHANGED <<lpc, logged, req, errors, conc, routerVars>>

\* Write on the statusWriter of middleware.go: the promoted method of the
\* embedded ResponseWriter
WritePromoted ==
    /\ lpc = "next"
    /\ sw.impl = "guarded"
    /\ rw' = ResponseWrite(rw)
    /\ hcalls' = Append(hcalls, [call |-> "Write", code |-> 0])
    /\ UNCHANGED <<sw, lpc, logged, wcalls, req, errors, conc, routerVars>>

\* statusWriter.Write of unnamed/part_011
Write ==
    /\ lpc = "next"
    /\ sw.impl = "forwarding"
    /\ IF ~sw.headerSent
       THEN LET res == WriteHeaderForwarded(sw, rw, StatusOK)
            IN /\ sw' = res.sw
               /\ rw' = ResponseWrite(res.rw)
               /\ wcalls' = Append(wcalls, StatusOK)
       ELSE /\ rw' = ResponseWrite(rw)
            /\ UNCHANGED <<sw, wcalls>>
    /\ hcalls' = Append(hcalls, [call |-> "Write", code |-> 0])
    /\ UNCHANGED <<lpc, logged, req, errors, conc, routerVars>>

\* LogRequest from the return of next: in unnamed/part_011 the body is read
\* and a failure logged; then the record with the status_code
LogRequestReturn ==
    LET res == parseRequestBody(req.body)
    IN
    /\ lpc = "next"
    /\ lpc' = "done"
    /\ IF sw.impl = "forwarding"
       THEN /\ req' = [req EXCEPT !.body = res.reqBody]
            /\ errors' = IF res.err # <<>> THEN Append(errors, res.err) ELSE errors
       ELSE UNCHANGED <<req, errors>>
    /\ logged' = Append(logged, sw.status)
    /\ UNCHANGED <<sw, rw, wcalls, hcalls, conc, routerVars>>

----------------------------------------------------------------------------
(* Values handed to the calls *)

\* the middleware the next Use on router r is given
UseMw(r) == 10 * r + Len(hist[r].own) + 1

\* the n middleware the next Group call is given
GroupMws(n) == [j \in 1..n |-> 10 * (Len(routers) + 1) + j]

\* the n middleware the next route registration is given
RouteMws(n) == [j \in 1..n |-> 100 + 10 * (Len(regs) + 1) + j]

\* the handler the next route registration is given
NextHandler == Len(regs) + 1

RECURSIVE CountUses(_)
CountUses(r) ==
    IF r = 0 THEN 0 ELSE Len(hist[r].own) - Len(hist[r].given) + CountUses(r - 1)

\* the Use, Group and route registration calls made so far
NumOps == CountUses(Len(hist)) + (Len(routers) - 1) + Len(regs)

\* the router handed to the fn that is running (the root outside any fn), and
\* with it the router that fn's Group call was made on
Innermost == IF Len(stack) = 0 THEN 1 ELSE stack[Len(stack)].sub

CanCall(r) == r \in Accessible /\ NumOps < MaxOps

----------------------------------------------------------------------------
(* Middleware chains on one router: Use, registrations, requests *)

NextChain ==
    \/ CanCall(1) /\ Use(1, UseMw(1))
    \/ \E n \in {0, 2} : CanCall(1) /\ Get(1, PathU, NextHandler, RouteMws(n))
    \/ \E n \in {0, 1} : CanCall(1) /\ Post(1, PathU, NextHandler, RouteMws(n))
    \/ \E method \in Methods : ServeHTTP(1, method, PathU)

SpecChain == Init /\ [][NextChain]_vars

(* Groups and the middleware they inherit *)

NextGroup ==
    \/ \E r \in Accessible : CanCall(r) /\ Use(r, UseMw(r))
    \/ \E n \in {0, 1} : CanCall(Innermost) /\ Group(Innermost, PrefixA, GroupMws(n))
    \/ GroupReturn
    \/ \E r \in Accessible, n \in {0, 1} :
         CanCall(r) /\ Get(r, PathU, NextHandler, RouteMws(n))
    \/ \E e \in mux[1] : ServeHTTP(1, e.pattern.method, e.pattern.path)

Spec == Init /\ [][NextGroup]_vars

(* Requests to the routers of a tree of groups *)

NextTree ==
    \/ CanCall(Innermost) /\ Group(Innermost, PrefixA, <<>>)
    \/ GroupReturn
    \/ \E r \in Accessible : CanCall(r) /\ Get(r, PathU, NextHandler, <<>>)
    \/ \E r \in Accessible : \E e \in mux[routers[r].mux] :
         ServeHTTP(r, e.pattern.method, e.pattern.path)

SpecTree == Init /\ [][NextTree]_vars

(* Static and routes in a tree of groups *)

NextStatic ==
    \/ \E n \in {0, 1} : CanCall(Innermost) /\ Group(Innermost, PrefixA, GroupMws(n))
    \/ GroupReturn
    \/ \E r \in Accessible : CanCall(r) /\ Get(r, PathS, NextHandler, <<>>)
    \/ \E r \in Accessible : CanCall(r) /\ Static(r, PathS)
    \/ \E e \in mux[1] : \E path \in {e.pattern.path, e.pattern.path \o <<"f">>} :
         ServeHTTP(1, "GET", path)

SpecStatic == Init /\ [][NextStatic]_vars

(* Paths and route lists of groups *)

NextPaths ==
    \/ \E prefix \in GroupPrefixes :
         CanCall(Innermost) /\ Group(Innermost, prefix, <<>>)
    \/ GroupReturn
    \/ \E p \in Paths : CanCall(Innermost) /\ Get(Innermost, p, NextHandler, <<>>)
    \/ \E r \in Accessible : CanCall(r) /\ Post(r, PathU, NextHandler, <<>>)
    \/ \E e \in mux[1] : ServeHTTP(1, e.pattern.method, e.pattern.path)

SpecPaths == Init /\ [][NextPaths]_vars

(* Requests to a router with Static, NotFound and the middleware of the package *)

\* the calls on a router that serves requests are bounded by MaxServeOps
CanServe == NumOps < MaxServeOps

NextServe ==
    \/ \E mw \in {StripTrailingSlashes, RecoverFromPanic, authMiddleware, UseMw(1)} :
         CanServe /\ Use(1, mw)
    \/ \E h \in {NextHandler, panicHandler, latePanicHandler}, n \in {0, 1} :
         CanServe /\ Get(1, PathU, h, RouteMws(n))
    \/ \E h \in CustomHandlers : CanServe /\ NotFound(1, h)
    \/ CanServe /\ Static(1, PathS)
    \/ \E method \in Methods, path \in RequestPaths : ServeHTTP(1, method, path)

SpecServe == Init /\ [][NextServe]_vars

(* Requests through the recovery and logging middleware of the package *)

NextRecover ==
    \/ \E mw \in Recoveries \cup {LogRequestMw, LogNewRequest} : CanServe /\ Use(1, mw)
    \/ \E h \in {NextHandler, panicHandler, latePanicHandler} :
         CanServe /\ Get(1, PathU, h, <<>>)
    \/ \E e \in mux[1] : ServeHTTP(1, e.pattern.method, e.pattern.path)

SpecRecover == Init /\ [][NextRecover]_vars

(* Requests served at the same time by a router with LogRequest *)

\* a LogRequest that keeps one statusWriter for all requests
AllocateShared(sws) == 1

\* sw := &statusWriter{...}: the address of a statusWriter not used before
Allocate(sws) == Len(sws) + 1

\* the build has one LogRequest: every statusWriter is of one implementation
SameBuild(impl) == \A k \in DOMAIN conc.sws : conc.sws[k].impl = impl

\* ServeHTTP for request i up to the call of next in LogRequest: the mux
\* finds the handler, LogRequest wraps the request's writer
ServeHTTPBegin(i, impl) ==
    LET es == Matches(routers[1].mux, "GET", PathU)
        k == Allocate(conc.sws)
        cell == NewStatusWriter(impl, i)
    IN
    /\ conc.reqs[i].pc = "idle"
    /\ SameBuild(impl)
    /\ es # {}
    /\ Best(es).handler.kind = "M"
    /\ Best(es).handler.name = LogRequestMw
    /\ conc' = [conc EXCEPT
                  !.sws = IF k \in DOMAIN @ THEN [@ EXCEPT ![k] = cell] ELSE Append(@, cell),
                  !.reqs[i] = [@ EXCEPT !.pc = "next", !.sw = k]]
    /\ UNCHANGED <<sw, rw, lpc, logged, wcalls, hcalls, req, errors, routerVars>>

\* the handler of request i calls WriteHeader on the writer it was given
HandlerWriteHeader(i, statusCode) ==
    LET k == conc.reqs[i].sw
        w == conc.sws[k]
        res == StatusWriterWriteHeader(w, conc.rws[w.rw], statusCode)
    IN
    /\ conc.reqs[i].pc = "next"
    /\ Len(conc.reqs[i].calls) < MaxConcCalls
    /\ conc' = [conc EXCEPT
                  !.sws[k] = res.sw,
                  !.rws[w.rw] = res.rw,
                  !.reqs[i].calls = Append(@, [call |-> "WriteHeader", code |-> statusCode])]
    /\ UNCHANGED <<sw, rw, lpc, logged, wcalls, hcalls, req, errors, routerVars>>

\* the handler of request i calls Write on the writer it was given
HandlerWrite(i) ==
    LET k == conc.reqs[i].sw
        w == conc.sws[k]
        res == StatusWriterWrite(w, conc.rws[w.rw])
    IN
    /\ conc.reqs[i].pc = "next"
    /\ Len(conc.reqs[i].calls) < MaxConcCalls
    /\ conc' = [conc EXCEPT
                  !.sws[k] = res.sw,
                  !.rws[w.rw] = res.rw,
                  !.reqs[i].calls = Append(@, [call |-> "Write", code |-> 0])]
    /\ UNCHANGED <<sw, rw, lpc, logged, wcalls, hcalls, req, errors, routerVars>>

\* next returns for request i: LogRequest reads sw.status into its record
ServeHTTPEnd(i) ==
    /\ conc.reqs[i].pc = "next"
    /\ conc' = [conc EXCEPT
                  !.reqs[i] = [@ EXCEPT !.pc = "done",
                                        !.logged = <<conc.sws[conc.reqs[i].sw].status>>]]
    /\ UNCHANGED <<sw, rw, lpc, logged, wcalls, hcalls, req, errors, routerVars>>

\* the setup, Use(LogRequest) and one route, and then the requests
NextConc ==
    \/ NumOps = 0 /\ Use(1, LogRequestMw)
    \/ NumOps = 1 /\ Get(1, PathU, NextHandler, <<>>)
    \/ \E i \in Requests, impl \in Impls : ServeHTTPBegin(i, impl)
    \/ \E i \in Requests, statusCode \in StatusCodes : HandlerWriteHeader(i, statusCode)
    \/ \E i \in Requests : HandlerWrite(i)
    \/ \E i \in Requests : ServeHTTPEnd(i)

SpecConc == Init /\ [][NextConc]_vars

(* normalizePath applied to a path and to its own result *)

InitNorm ==
    /\ routers = <<[prefix |-> <<>>, mux |-> 1, routes |-> <<>>, middlewares |-> NilSlice]>>
    /\ arrays = [i \in 1..MaxArrays |-> <<>>]
    /\ mux = <<{}>>
    /\ stack = <<>>
    /\ hist = <<[parent |-> 0, seen |-> 0, inherited |-> <<>>, given |-> <<>>,
                 own |-> <<>>, prefixArg |-> <<>>]>>
    /\ regs = <<>>
    /\ \E p \in PathInputs : last = [op |-> "path", p |-> p]
    /\ panicked = FALSE
    /\ sw = [impl |-> "guarded", status |-> 0, headerSent |-> FALSE]
    /\ rw = NewResponseWriter
    /\ lpc = "idle"
    /\ logged = <<>>
    /\ wcalls = <<>>
    /\ hcalls = <<>>
    /\ req = [in |-> NilBody, body |-> NilBody, nexts |-> 0]
    /\ errors = <<>>
    /\ conc = NoRequests

\* normalizePath(p)
Normalize ==
    /\ last.op = "path"
    /\ last' = [op |-> "normalizePath", p |-> last.p, res |-> normalizePath(last.p)]
    /\ UNCHANGED <<routers, arrays, mux, stack, hist, regs, panicked, writerVars>>

\* normalizePath of the result
NormalizeAgain ==
    /\ last.op = "normalizePath"
    /\ last' = [op |-> "again", p |-> last.p, res |-> last.res,
                again |-> normalizePath(last.res)]
    /\ UNCHANGED <<routers, arrays, mux, stack, hist, regs, panicked, writerVars>>

NextNorm == Normalize \/ NormalizeAgain

SpecNorm == InitNorm /\ [][NextNorm]_vars

(* ReadRequestBody on a request, and a read of the body it leaves *)

InitBody ==
    /\ routers = <<[prefix |-> <<>>, mux |-> 1, routes |-> <<>>, middlewares |-> NilSlice]>>
    /\ arrays = [i \in 1..MaxArrays |-> <<>>]
    /\ mux = <<{}>>
    /\ stack = <<>>
    /\ hist = <<[parent |-> 0, seen |-> 0, inherited |-> <<>>, given |-> <<>>,
                 own |-> <<>>, prefixArg |-> <<>>]>>
    /\ regs = <<>>
    /\ \E b \in Bodies : last = [op |-> "request", in |-> b]
    /\ panicked = FALSE
    /\ sw = [impl |-> "guarded", status |-> 0, headerSent |-> FALSE]
    /\ rw = NewResponseWriter
    /\ lpc = "idle"
    /\ logged = <<>>
    /\ wcalls = <<>>
    /\ hcalls = <<>>
    /\ req = [in |-> NilBody, body |-> NilBody, nexts |-> 0]
    /\ errors = <<>>
    /\ conc = NoRequests

\* body, err := ReadRequestBody(req)
ReadBody ==
    /\ last.op = "request"
    /\ LET res == ReadRequestBody(last.in)
       IN last' = [op |-> "ReadRequestBody", in |-> last.in, body |-> res.body,
                   err |-> res.err, reqBody |-> res.reqBody]
    /\ UNCHANGED <<routers, arrays, mux, stack, hist, regs, panicked, writerVars>>

\* io.ReadAll(req.Body) by a later reader of the request
ReadAgain ==
    /\ last.op = "ReadRequestBody"
    /\ last.reqBody.kind # "nil"
    /\ LET r == ReadAll(last.reqBody)
       IN last' = [op |-> "ReadAll", in |-> last.in, body |-> last.body,
                   err |-> last.err, reqBody |-> r.rest,
                   again |-> r.bytes, againErr |-> r.err]
    /\ UNCHANGED <<routers, arrays, mux, stack, hist, regs, panicked, writerVars>>

NextBody == ReadBody \/ ReadAgain

SpecBody == InitBody /\ [][NextBody]_vars

(* One request after another through LogRequest *)

NextLog ==
    \/ \E impl \in Impls, body \in LoggedBodies : LogRequest(impl, body)
    \/ \E code \in StatusCodes : NumCalls < MaxCalls /\ WriteHeader(code)
    \/ \E code \in StatusCodes : NumCalls < MaxCalls /\ WriteHeaderForwarding(code)
    \/ NumCalls < MaxCalls /\ WritePromoted
    \/ NumCalls < MaxCalls /\ Write
    \/ LogRequestReturn

SpecLog == Init /\ [][NextLog]_vars

----------------------------------------------------------------------------
(* What a request observes *)

\* the last operation was a request that a registered route served
Served == last.op = "ServeHTTP" /\ last.matched

\* the registration a pattern belongs to
RegOf(pattern) ==
    regs[CHOOSE i \in 1..Len(regs) :
            regs[i].method = pattern.method /\ regs[i].path = pattern.path]

\* the trace of a request through the middleware chain and the handler h
ExpectedTrace(chain, h) ==
    [i \in 1..Len(chain) |-> [ev |-> "pre", n |-> chain[i]]]
    \o <<[ev |-> "handler", n |-> h]>>
    \o [i \in 1..Len(chain) |-> [ev |-> "post", n |-> chain[Len(chain) + 1 - i]]]

IsPre(e) == e.ev = "pre"

\* the middleware a trace entered, in order
PreNames(trace) ==
    LET pres == SelectSeq(trace, IsPre) IN [i \in 1..Len(pres) |-> pres[i].n]

RECURSIVE Nest(_, _)
\* m1(m2(...mn(H)...))
Nest(ms, H) == IF ms = <<>> THEN H ELSE Apply(Head(ms), Nest(Tail(ms), H))

\* a step in which Use was called on router r
UseStep(r) ==
    /\ Len(hist') = Len(hist)
    /\ Len(hist'[r].own) = Len(hist[r].own) + 1

RECURSIVE LateUses(_)
\* the middleware the ancestors of router c were given by Use after the Group
\* call that leads to c
LateUses(c) ==
    IF c = 1 THEN {}
    ELSE LET par == hist[c].parent
         IN {hist[par].own[j] : j \in (hist[c].seen + 1)..Len(hist[par].own)}
            \cup LateUses(par)

RECURSIVE CumulAt(_, _)
\* what was given to the ancestors of router r before the Group call that
\* leads to r, outermost first, and then the first k entries given to r
CumulAt(r, k) ==
    IF r = 1 THEN SubSeq(hist[1].own, 1, k)
    ELSE CumulAt(hist[r].parent, hist[r].seen) \o SubSeq(hist[r].own, 1, k)

----------------------------------------------------------------------------
(* Properties *)

\* C1: a request to a route registered with route middleware [r1, r2] on a
\* router whose global list was [g1, g2] at registration enters g1, g2, r1,
\* r2, then the handler, and leaves through r2, r1, g2, g1.
C1_ChainOrder ==
    Served =>
        LET reg == RegOf(last.pattern)
        IN last.trace = ExpectedTrace(reg.globals \o reg.mws, reg.h)

C1_Witness ==
    /\ Served
    /\ last.trace = <<[ev |-> "pre", n |-> 11], [ev |-> "pre", n |-> 12],
                      [ev |-> "pre", n |-> 111], [ev |-> "pre", n |-> 112],
                      [ev |-> "handler", n |-> 1],
                      [ev |-> "post", n |-> 112], [ev |-> "post", n |-> 111],
                      [ev |-> "post", n |-> 12], [ev |-> "post", n |-> 11]>>

\* C2: wrap(H, [m1, ..., mn]) is m1(m2(...mn(H)...)) for every n >= 0, and H
\* itself for the empty list; handle uses it for the route middleware and
\* then for the global middleware.
C2_WrapNesting ==
    last.op = "handle" =>
        /\ last.routeHandler = Nest(last.mws, Terminal(last.handler))
        /\ last.finalHandler = Nest(last.globals, last.routeHandler)
        /\ last.mws = <<>> => last.routeHandler = Terminal(last.handler)
        /\ last.globals = <<>> => last.finalHandler = last.routeHandler

C2_Witness ==
    /\ last.op = "handle"
    /\ last.mws = <<111, 112>>
    /\ last.globals = <<11, 12>>
    /\ last.finalHandler = Apply(11, Apply(12, Apply(111, Apply(112, Terminal(1)))))

\* C3: the middleware a group inherits is a snapshot taken at the Group call:
\* a Use on a router changes neither the global list of any other router nor
\* the handler of any registered route, and a request to a route of a group
\* never runs a middleware an ancestor was given after the group was created.
C3_GroupSnapshot ==
    /\ [][\A p \in 1..Len(routers) :
            UseStep(p) =>
                /\ mux' = mux
                /\ \A c \in (1..Len(routers)) \ {p} :
                       Elems(arrays', routers'[c].middlewares) = MwList(c)]_vars
    /\ [](Served =>
            \A i \in 1..Len(last.trace) :
                last.trace[i].n \notin LateUses(RegOf(last.pattern).router))

\* Use(m1) on the root, Group with m2, Use(m3) on the root, a route in the
\* group, a request to it
C3_Witness ==
    /\ Served
    /\ hist[1].own = <<11, 12>>
    /\ Len(hist) >= 2 /\ hist[2].seen = 1 /\ hist[2].given = <<21>>
    /\ RegOf(last.pattern).router = 2
    /\ PreNames(last.trace) = <<11, 21>>

\* C4: a Use on a router leaves the handlers of the routes registered before
\* it as they are: a request to a route runs the global middleware given to
\* the router before the route was registered, all of them and no other.
C4_NoRetroactiveUse ==
    /\ [][UseStep(1) => mux' = mux]_vars
    /\ [](Served =>
            LET reg == RegOf(last.pattern)
            IN reg.router = 1 =>
                 PreNames(last.trace) = SubSeq(hist[1].own, 1, reg.uses) \o reg.mws)

\* Use, Get, Use, Post, and a request to the GET route
C4_Witness ==
    /\ Served
    /\ Len(regs) = 2
    /\ regs[1].uses = 1 /\ regs[2].uses = 2
    /\ regs[2].globals = <<11, 12>>
    /\ last.pattern.method = "GET" /\ regs[1].method = "GET"
    /\ PreNames(last.trace) = <<11>>

\* C5: the global list of a router created by Group is the parent's list as
\* it was at the Group call, followed by the group's own middleware and by
\* what Use has appended to the child since.
C5_InheritedPrefix ==
    \A c \in 2..Len(routers) :
        /\ IsPrefixOf(hist[c].inherited, MwList(c))
        /\ MwList(c) = hist[c].inherited \o hist[c].own

C5_Witness ==
    /\ Len(routers) >= 2
    /\ hist[2].inherited = <<11>>
    /\ MwList(1) = <<11, 12>>
    /\ MwList(2) = <<11, 21, 22>>

\* C6: a request to a route of a nested group runs the root's global
\* middleware, then the middleware of each group from the outermost to the
\* innermost, then the route middleware, then the handler.
C6_NestedCumulative ==
    Served =>
        LET reg == RegOf(last.pattern)
        IN last.trace = ExpectedTrace(CumulAt(reg.router, reg.uses) \o reg.mws, reg.h)

C6_Witness ==
    /\ Served
    /\ Len(hist) >= 3 /\ hist[2].parent = 1 /\ hist[3].parent = 2
    /\ RegOf(last.pattern).router = 3
    /\ PreNames(last.trace) = <<11, 21, 31, 111>>

----------------------------------------------------------------------------
(* Paths and route lists *)

RECURSIVE ArgConcat(_)
\* the prefixes given to the Group calls that lead to router r, outermost
\* first, concatenated
ArgConcat(r) ==
    IF r = 1 THEN <<>> ELSE ArgConcat(hist[r].parent) \o hist[r].prefixArg

RECURSIVE Collapse(_)
\* s with every run of slashes replaced by one slash
Collapse(s) ==
    IF Len(s) < 2 THEN s
    ELSE IF s[1] = "/" /\ s[2] = "/" THEN Collapse(Tail(s))
    ELSE <<s[1]>> \o Collapse(Tail(s))

\* "/" and s, repeated slashes collapsed, the trailing slash stripped unless
\* the result is "/"
SlashNormal(s) ==
    LET t == Collapse(<<"/">> \o s)
    IN IF Len(t) > 1 /\ t[Len(t)] = "/" THEN SubSeq(t, 1, Len(t) - 1) ELSE t

RECURSIVE Resolve(_, _)
\* the elements of a rooted path with "." dropped and ".." taking the
\* element before it away
Resolve(segs, out) ==
    IF segs = <<>> THEN out
    ELSE IF Head(segs) = <<".">> THEN Resolve(Tail(segs), out)
    ELSE IF Head(segs) = <<".", ".">>
         THEN Resolve(Tail(segs), SubSeq(out, 1, Len(out) - 1))
    ELSE Resolve(Tail(segs), Append(out, Head(segs)))

\* SlashNormal with the "." and ".." elements resolved
DotNormal(s) ==
    LET t == SlashNormal(s)
    IN IF t = <<"/">> THEN t
       ELSE <<"/">> \o Join(Resolve(Tail(Split(t)), <<>>))

WellFormed(path) ==
    /\ path # <<>>
    /\ path[1] = "/"
    /\ \A i \in 1..(Len(path) - 1) : ~(path[i] = "/" /\ path[i + 1] = "/")
    /\ Len(path) > 1 => path[Len(path)] # "/"

\* registration reg is in the mux under "<METHOD> <full>" and in the route
\* list of its router with the path full
RegisteredAt(reg, full) ==
    /\ reg.path = full
    /\ \E e \in mux[routers[reg.router].mux] :
           e.pattern = [method |-> reg.method, path |-> full]
    /\ \E j \in 1..Len(routers[reg.router].routes) :
           LET rt == routers[reg.router].routes[j]
           IN rt.handler = reg.h /\ rt.method = reg.method /\ rt.path = full

\* C7: a registration on a router at any group depth registers the pattern
\* "<METHOD> <fullPath>" and records a Route with the path fullPath, which is
\* path.Clean of "/" followed by the prefixes of all ancestor groups and the
\* given path: repeated slashes collapsed, "." and ".." elements resolved,
\* the trailing slash stripped unless the result is "/"; fullPath is never
\* empty, starts with "/" and has no "//".
C7_FullPath ==
    \A i \in 1..Len(regs) :
        LET full == DotNormal(ArgConcat(regs[i].router) \o regs[i].p)
        IN RegisteredAt(regs[i], full) /\ WellFormed(full)

\* Get("/") inside Group("/u/") inside Group("/a") is served at "/a/u"
C7_Witness ==
    /\ Served
    /\ last.path = <<"/", "a", "/", "u">>
    /\ LET reg == RegOf(last.pattern)
       IN /\ reg.p = <<"/">>
          /\ reg.router = 3
          /\ hist[3].parent = 2 /\ hist[3].prefixArg = <<"/", "u", "/">>
          /\ hist[2].parent = 1 /\ hist[2].prefixArg = <<"/", "a">>

\* C7 as stated: fullPath is the concatenation with the repeated slashes
\* collapsed and the trailing slash stripped, and nothing else done to it.
C7_SlashesOnly ==
    \A i \in 1..Len(regs) :
        LET full == SlashNormal(ArgConcat(regs[i].router) \o regs[i].p)
        IN RegisteredAt(regs[i], full) /\ WellFormed(full)

RECURSIVE IsUnder(_, _)
\* router r is s or was created by a Group call under s
IsUnder(r, s) == r = s \/ (r # 1 /\ IsUnder(hist[r].parent, s))

\* the Route records a returning Group call added to its router
Added == SubSeq(routers[last.router].routes, Len(last.held) + 1,
                Len(routers[last.router].routes))

\* after a Group call returned: the records it added come after those the
\* router held and are those registered on the child and the groups under it
AddedIsChildRoutes ==
    /\ IsPrefixOf(last.held, routers[last.router].routes)
    /\ Added = routers[last.sub].routes
    /\ {Added[j].handler : j \in 1..Len(Added)} =
           {regs[i].h : i \in {k \in 1..Len(regs) : IsUnder(regs[k].router, last.sub)}}
    /\ \A j \in 1..Len(Added) :
           /\ Added[j].path = regs[Added[j].handler].path
           /\ Added[j].method = regs[Added[j].handler].method
    /\ \A j, k \in 1..Len(Added) : Added[j].handler = Added[k].handler => j = k

\* no step removes or alters a Route record
AppendOnly ==
    \A r \in 1..Len(routers) : IsPrefixOf(routers[r].routes, routers'[r].routes)

\* C8: after Group returns, the Route records registered on the child and on
\* the groups nested in it are in the parent's route list after the records
\* the parent held, in the order of the child's route list: the records
\* registered on one router are in registration order, those of a nested
\* group are where the nested Group call returned; the list is append-only.
C8_RoutesMerged ==
    /\ [](last.op = "GroupReturn" =>
            /\ AddedIsChildRoutes
            /\ \A j, k \in 1..Len(Added) :
                   (j < k /\ regs[Added[j].handler].router = regs[Added[k].handler].router)
                       => Added[j].handler < Added[k].handler)
    /\ [][AppendOnly]_vars

\* a group returns to a root that held a route, with the route of a group
\* nested in it
C8_Witness ==
    /\ last.op = "GroupReturn"
    /\ last.router = 1 /\ last.sub = 2
    /\ Len(last.held) = 1
    /\ Len(Added) = 1
    /\ regs[Added[1].handler].router = 3
    /\ routers[1].routes = last.held \o routers[3].routes

\* C8 as stated: the records are in the order of their registration.
C8_RegistrationOrder ==
    /\ [](last.op = "GroupReturn" =>
            /\ AddedIsChildRoutes
            /\ \A j, k \in 1..Len(Added) :
                   j < k => Added[j].handler < Added[k].handler)
    /\ [][AppendOnly]_vars

----------------------------------------------------------------------------
(* The status the logger reads *)

\* a step in which WriteHeader is called on a statusWriter that was called
\* before in the same request
LaterWriteHeader == Len(wcalls) >= 1 /\ Len(wcalls') = Len(wcalls) + 1

\* what the underlying writer has committed stays as it is during a request
CommittedOnce ==
    (lpc = "next" /\ rw.wroteHeader) => (rw'.wroteHeader /\ rw'.code = rw.code)

\* C9: the status the statusWriter holds, and the logger reads after next
\* has returned, is the code of the first WriteHeader call of the request.
C9_FirstStatusLogged ==
    /\ wcalls # <<>> => sw.status = wcalls[1]
    /\ lpc = "done" => logged = <<sw.status>>

\* WriteHeader(201), WriteHeader(404), logged as 201
C9_Witness ==
    /\ lpc = "done"
    /\ wcalls = <<201, 404>>
    /\ logged = <<201>>

\* C10: one status is committed to the underlying writer per request, and a
\* WriteHeader call after the first changes neither the recorded nor the
\* committed status; the statusWriter of middleware.go does not pass it on,
\* that of unnamed/part_011 passes it to the underlying writer.
C10_StatusFrozen ==
    /\ [][LaterWriteHeader =>
            /\ sw' = sw
            /\ rw'.code = rw.code /\ rw'.wroteHeader = rw.wroteHeader
            /\ sw.impl = "guarded" => rw' = rw]_vars
    /\ [][CommittedOnce]_vars
    /\ [](sw.impl = "guarded" => Len(rw.received) <= 1)

\* the second WriteHeader of a request has reached the underlying writer
C10_Witness ==
    /\ sw.impl = "forwarding"
    /\ wcalls = <<201, 404>>
    /\ rw.received = <<201, 404>>
    /\ rw.code = 201 /\ sw.status = 201

\* C10 as stated: a WriteHeader call after the first does not reach the
\* underlying writer.
C10_NeverForwarded ==
    /\ [][LaterWriteHeader => (sw' = sw /\ rw' = rw)]_vars
    /\ [][CommittedOnce]_vars
    /\ [](Len(rw.received) <= 1)

\* the handler's first call on the writer was a Write
WroteFirst == hcalls # <<>> /\ hcalls[1].call = "Write"

\* C11: when the handler writes body bytes through the statusWriter before
\* any WriteHeader call, the statusWriter commits 200 before it forwards the
\* write: from then on the recorded status is 200, whatever WriteHeader calls
\* follow, 200 is what the underlying writer has committed and what is logged.
C11_WriteCommits200 ==
    WroteFirst =>
        /\ sw.status = StatusOK
        /\ rw.code = StatusOK
        /\ lpc = "done" => logged = <<StatusOK>>

\* the positions of a trace where the middleware mw did what ev names
At(trace, ev, mw) == {k \in 1..Len(trace) : trace[k].ev = ev /\ trace[k].n = mw}

\* the events of a handler or middleware being entered
Entered == {"pre", "stop", "handler", "file"}

\* the request ran the terminal handler of the registration
HandlerRan(trace) == \E k \in 1..Len(trace) : trace[k].ev \in {"handler", "file"}

\* C12: StripTrailingSlashes answers a request whose path is not "/" and ends
\* in "/" with 301 and the path less one trailing slash as location, and does
\* not call next; for "/" and a path without trailing slash it calls next
\* once and writes nothing itself
C12_StripTrailingSlashes ==
    Served =>
        LET t == last.trace
            stops == At(t, "stop", StripTrailingSlashes)
            pres == At(t, "pre", StripTrailingSlashes)
        IN
        /\ stops # {} =>
              /\ last.path # <<"/">> /\ HasSuffixSlash(last.path)
              /\ pres = {}
              /\ last.status = 301
              /\ last.resp.location \o <<"/">> = last.path
              /\ ~HandlerRan(t)
              /\ \A k \in stops : \A j \in (k + 1)..Len(t) : t[j].ev \notin Entered
        /\ pres # {} =>
              /\ last.path = <<"/">> \/ ~HasSuffixSlash(last.path)
              /\ stops = {}
              /\ \A k \in pres : k < Len(t) /\ t[k + 1].ev \in Entered
              /\ last.status # 301
              /\ last.resp.location = <<>>

\* a request for "/u/" reached StripTrailingSlashes and was redirected to "/u"
C12_Witness ==
    /\ Served
    /\ last.path = PathU \o <<"/">>
    /\ At(last.trace, "stop", StripTrailingSlashes) # {}
    /\ last.resp.location = PathU

\* the request entered RecoverFromPanic and then the handler h
RecoveryAround(trace, h) ==
    \E i \in At(trace, "pre", RecoverFromPanic), k \in At(trace, "handler", h) : i < k

\* C13: when a handler wrapped by RecoverFromPanic panics before writing, the
\* response is 500, the panic does not leave the middleware, and the requests
\* after it are served by the same registrations
C13_PanicRecovered ==
    /\ [](Served /\ RecoveryAround(last.trace, panicHandler) =>
            /\ last.status = 500
            /\ last.resp.received = <<500>>
            /\ last.resp.writes = 1
            /\ ~panicked)
    /\ [][last.op = "ServeHTTP" /\ last.matched
            /\ RecoveryAround(last.trace, panicHandler)
            /\ last'.op = "ServeHTTP" /\ last'.matched
             => /\ mux' = mux
                /\ last'.resp = Run(Best(Matches(1, last'.method, last'.path)).handler,
                                    last'.path, NewResponseWriter).w]_vars

\* a request after a recovered panic was answered by the handler of a
\* registration that does not panic
C13_Witness ==
    /\ Served
    /\ RecoveryAround(last.trace, panicHandler)
    /\ last.status = 500
    /\ ~panicked
    /\ \E method \in Methods, path \in RequestPaths :
         /\ ~RedirectsToSlash(1, method, path)
         /\ Matches(1, method, path) # {}
         /\ Run(Best(Matches(1, method, path)).handler, path, NewResponseWriter).w.code
              \in CustomHandlers

\* RecoverFromPanic caught a panic in the request
PanicCaught(trace) == At(trace, "recover", RecoverFromPanic) # {}

\* C14: a request whose handler panics under RecoverFromPanic gets exactly one
\* response, the 500 of the recovery, and nothing of what the handler wrote
\* before it panicked
C14_OneResponse ==
    Served /\ PanicCaught(last.trace) =>
        /\ last.status = 500
        /\ last.resp.received = <<500>>
        /\ last.resp.writes = 1

\* the registrations made with Get, Post, ... for the path of the last request
RoutesAt(path) == {i \in 1..Len(regs) : regs[i].via = "handle" /\ regs[i].path = path}

\* the last request is for the path of a route, with a method none of the
\* routes of that path has
MethodMismatch ==
    /\ last.op = "ServeHTTP"
    /\ RoutesAt(last.path) # {}
    /\ \A i \in RoutesAt(last.path) : regs[i].method # last.method

\* the registrations of Static and NotFound whose pattern covers the path
CatchAllsAt(path) ==
    {i \in 1..Len(regs) : regs[i].via # "handle" /\ IsPrefixOf(regs[i].path, path)}

\* C15: a request for the path of a route with a method no route of that
\* path has is answered with 405 and runs no handler, unless a pattern
\* without method (the "/" of NotFound, the prefix of Static) covers the path:
\* then the handler of that pattern answers
C15_MethodNotAllowed ==
    MethodMismatch =>
        IF CatchAllsAt(last.path) = {}
        THEN /\ last.status = 405
             /\ ~last.matched
             /\ last.trace = <<>>
        ELSE /\ last.matched
             /\ last.pattern.method = ""
             /\ RegOf(last.pattern).via # "handle"

\* POST /u with only GET /u registered was answered with 405
C15_Witness ==
    /\ MethodMismatch
    /\ last.method = "POST"
    /\ last.path = PathU
    /\ CatchAllsAt(last.path) = {}
    /\ last.status = 405

\* C15 as stated: whatever else is registered, the request is answered with
\* 405 and no registered handler runs
C15_AnyRegistrations ==
    MethodMismatch => last.status = 405 /\ ~HandlerRan(last.trace)

\* the registrations of NotFound
NotFounds == {i \in 1..Len(regs) : regs[i].via = "NotFound"}

\* the last request is for a path that no route and no Static prefix covers
Unmatched ==
    /\ last.op = "ServeHTTP"
    /\ \A i \in 1..Len(regs) :
         regs[i].via # "NotFound" =>
            /\ regs[i].path # last.path
            /\ regs[i].path # last.path \o <<"/">>
            /\ ~(HasSuffixSlash(regs[i].path) /\ IsPrefixOf(regs[i].path, last.path))

\* a middleware answered the request itself
Stopped(trace) == \E k \in 1..Len(trace) : trace[k].ev = "stop"

\* C16: after NotFound(custom) a request for a path no route covers goes to
\* custom, and the status and the body custom writes are the response; with
\* no custom handler the response is 404 with the status text
C16_NotFoundHandler ==
    Unmatched =>
        IF NotFounds = {}
        THEN /\ ~last.matched
             /\ last.status = 404
             /\ last.trace = <<>>
             /\ last.resp = Error(NewResponseWriter, 404)
        ELSE \A i \in NotFounds :
             /\ last.matched
             /\ last.pattern = [method |-> "", path |-> <<"/">>]
             /\ HandlerRan(last.trace) \/ Stopped(last.trace)
             /\ HandlerRan(last.trace) =>
                   /\ At(last.trace, "handler", regs[i].h) # {}
                   /\ last.status = regs[i].h
                   /\ last.resp.received = <<regs[i].h>>
                   /\ last.resp.writes = 1

\* a request for "/x" was answered by the custom handler that sends 410
C16_Witness ==
    /\ Unmatched
    /\ last.path = <<"/", "x">>
    /\ \E i \in NotFounds : regs[i].h = goneHandler
    /\ At(last.trace, "handler", goneHandler) # {}
    /\ last.status = goneHandler

\* C17: NotFound registers the handler wrapped by the global middleware the
\* router holds then, and a request for a path no route covers enters every
\* one of them, in order, before the custom handler
C17_NotFoundWrapped ==
    /\ last.op = "NotFound" =>
          last.finalHandler = Nest(last.globals, Terminal(regs[Len(regs)].h))
    /\ Unmatched =>
          \A i \in NotFounds :
             /\ HandlerRan(last.trace) =>
                   /\ PreNames(last.trace) = regs[i].globals
                   /\ last.trace[Len(regs[i].globals) + 1] =
                         [ev |-> "handler", n |-> regs[i].h]
             /\ Stopped(last.trace) =>
                   /\ Len(PreNames(last.trace)) < Len(regs[i].globals)
                   /\ PreNames(last.trace) =
                         SubSeq(regs[i].globals, 1, Len(PreNames(last.trace)))

\* a request for "/x" entered two global middleware, RecoverFromPanic among
\* them, and then the custom handler
C17_Witness ==
    /\ Unmatched
    /\ last.path = <<"/", "x">>
    /\ \E i \in NotFounds :
         /\ Len(regs[i].globals) = 2
         /\ \E k \in 1..2 : regs[i].globals[k] = RecoverFromPanic
         /\ PreNames(last.trace) = regs[i].globals
    /\ HandlerRan(last.trace)

\* every Use call on the router was made before its first registration
UsesFirst == \A i \in 1..Len(regs) : regs[i].uses = Len(hist[1].own)

\* the middleware a trace entered, those that answered themselves included
EnteredNames(trace) ==
    LET IsMw(e) == e.ev \in {"pre", "stop"}
        es == SelectSeq(trace, IsMw)
    IN [i \in 1..Len(es) |-> es[i].n]

\* C18: when every Use call came before the registrations, any request passed
\* to ServeHTTP, matched or not, enters the middleware given to Use, in order,
\* all of them unless one answers itself
C18_UseEveryRequest ==
    last.op = "ServeHTTP" /\ UsesFirst /\ hist[1].own # <<>> =>
        LET ns == EnteredNames(last.trace)
            k == Len(hist[1].own)
        IN /\ ns # <<>>
           /\ \A j \in 1..k : j <= Len(ns) => ns[j] = hist[1].own[j]
           /\ ~Stopped(last.trace) => Len(ns) >= k

\* the registrations of Static whose prefix the path is under
StaticsOver(path) ==
    {i \in 1..Len(regs) : regs[i].via = "Static" /\ IsPrefixOf(regs[i].path, path)}

\* the file server served the request, for the path it was handed
FileServed(trace) == {k \in 1..Len(trace) : trace[k].ev = "file"}

\* a GET request under the prefix of Static goes through the global middleware
\* held at the Static call to the file server, which gets the path less the
\* prefix
StaticServesGet ==
    last.op = "ServeHTTP" /\ last.method = "GET" =>
        \A i \in StaticsOver(last.path) :
            /\ last.matched
            /\ last.pattern = [method |-> "", path |-> regs[i].path]
            /\ FileServed(last.trace) # {} \/ Stopped(last.trace)
            /\ \A k \in FileServed(last.trace) :
                 /\ normalizePath(regs[i].p) \o last.trace[k].path = last.path
                 /\ PreNames(last.trace) = regs[i].globals

\* C19: Static registers a GET handler: GET requests under the prefix reach
\* the file server with the prefix stripped, inside the global middleware held
\* at the Static call, and requests with another method are not served by the
\* file server
C19_StaticGetOnly ==
    /\ StaticServesGet
    /\ last.op = "ServeHTTP" /\ last.method # "GET" /\ StaticsOver(last.path) # {}
         => FileServed(last.trace) = {}

\* the middleware of the model that act again after next returns
ActsAfterNext(mw) == mw \notin {StripTrailingSlashes, RecoverFromPanic, authMiddleware}

\* the post-next events of the middleware before position i of a chain, the
\* innermost first
PostsBefore(chain, i) ==
    LET before == SelectSeq(SubSeq(chain, 1, i - 1), ActsAfterNext)
    IN [j \in 1..Len(before) |-> [ev |-> "post", n |-> before[Len(before) + 1 - j]]]

\* the middleware chain of the registration that served the last request
ChainOfLast == RegOf(last.pattern).globals \o RegOf(last.pattern).mws

\* C20: when the middleware at position i of a chain writes a response and
\* returns without calling next, no middleware after position i and no
\* terminal handler runs, the middleware before position i act after it in
\* reverse order, and the request completes normally; every request through a
\* chain ends with the terminal handler having run or short-circuited, never
\* both
C20_ShortCircuit ==
    Served =>
        LET t == last.trace
            chain == ChainOfLast
        IN
        /\ HandlerRan(t) # Stopped(t)
        /\ Stopped(t) =>
              \E i \in 1..Len(chain) :
                 /\ EnteredNames(t) = SubSeq(chain, 1, i)
                 /\ t[i] = [ev |-> "stop", n |-> chain[i]]
                 /\ SubSeq(t, i + 1, Len(t)) = PostsBefore(chain, i)
                 /\ ~panicked
                 /\ last.resp.wroteHeader
                 /\ last.status \in {301, 401}

\* authMiddleware, second of three middleware around a handler, answered 401:
\* the first middleware acted again after it, the third and the handler did
\* not run
C20_Witness ==
    /\ Served
    /\ Len(ChainOfLast) = 3
    /\ ChainOfLast[2] = authMiddleware
    /\ ActsAfterNext(ChainOfLast[1])
    /\ last.trace = <<[ev |-> "pre", n |-> ChainOfLast[1]],
                      [ev |-> "stop", n |-> authMiddleware],
                      [ev |-> "post", n |-> ChainOfLast[1]]>>
    /\ last.status = 401

\* s without its trailing slashes
RECURSIVE TrimSlashes(_)
TrimSlashes(s) ==
    IF s # <<>> /\ s[Len(s)] = "/" THEN TrimSlashes(SubSeq(s, 1, Len(s) - 1)) ELSE s

\* p and q differ only in repeated or trailing slashes
SlashEquivalent(p, q) == TrimSlashes(Collapse(p)) = TrimSlashes(Collapse(q))

\* C30: normalizePath has a result for every path, the result starts with
\* "/", normalizePath of the result is the result, and paths that differ only
\* in repeated or trailing slashes have the same result
C30_NormalizeIdempotent ==
    /\ last.op \in {"normalizePath", "again"} =>
          /\ last.res # <<>>
          /\ last.res[1] = "/"
          /\ \A q \in PathInputs :
                SlashEquivalent(last.p, q) => normalizePath(q) = last.res
    /\ last.op = "again" => last.again = last.res

\* "a//." was normalized to "/a", and "/a" to itself; "a/" has the same result
C30_Witness ==
    /\ last.op = "again"
    /\ last.p = <<"a", "/", "/", ".">>
    /\ last.res = <<"/", "a">>
    /\ last.again = <<"/", "a">>
    /\ \E q \in PathInputs :
         q # last.p /\ SlashEquivalent(last.p, q) /\ normalizePath(q) = last.res

\* the registration is in the dispatch table of router r
DispatchedBy(r, reg) ==
    \E e \in Matches(routers[r].mux, reg.method, reg.path) :
        /\ e.pattern = [method |-> reg.method, path |-> reg.path]
        /\ e.handler = finalHandler(reg.h, reg.mws, reg.globals)

\* C23: the root router and every group router reference the one multiplexer
\* New created, so a route registered at any depth is dispatched by ServeHTTP
\* of the root and of every group router alike
C23_SingleMux ==
    /\ Len(mux) = 1
    /\ \A r \in 1..Len(routers) :
         /\ routers[r].mux = routers[1].mux
         /\ \A i \in 1..Len(regs) : DispatchedBy(r, regs[i])
    /\ Served => last.trace = <<[ev |-> "handler", n |-> RegOf(last.pattern).h]>>

\* ServeHTTP of a group router served a route registered on the root, and the
\* group holds a route of its own
C23_Witness ==
    /\ Served
    /\ last.router # 1
    /\ RegOf(last.pattern).router = 1
    /\ \E i \in 1..Len(regs) : regs[i].router = last.router
    /\ \E r \in 1..Len(routers) : hist[r].parent > 1

\* the pattern Static makes of a prefix: the prefix with a trailing slash
SubtreePattern(full) == IF HasSuffixSlash(full) THEN full ELSE full \o <<"/">>

\* C29: Static called on a group router registers the file handler under the
\* prefixes of the group's ancestors, the group's prefix and the given prefix,
\* as Get does for a path, wrapped by the group's effective global middleware
C29_StaticInGroup ==
    \A i \in 1..Len(regs) :
        regs[i].via = "Static" =>
            LET full == normalizePath(ArgConcat(regs[i].router) \o regs[i].p)
            IN /\ regs[i].path = SubtreePattern(full)
               /\ regs[i].globals = CumulAt(regs[i].router, regs[i].uses)
               /\ \E e \in mux[1] :
                     /\ e.pattern = [method |-> "", path |-> SubtreePattern(full)]
                     /\ e.handler = Nest(regs[i].globals,
                                         StripPrefix(full, Terminal(FileServer)))

\* the status the underlying writer has committed, or commits when the
\* handler returns without having written
Committed == IF rw.wroteHeader THEN rw.code ELSE StatusOK

\* C27: whatever WriteHeader and Write calls the handler makes through the
\* statusWriter, the status the wrapper has recorded equals the status
\* committed to the underlying writer, during the handler and when it returns
C27_WrapperAgrees ==
    lpc \in {"next", "done"} => sw.status = Committed

RECURSIVE Direct(_, _)
\* the writer after the handler's calls were made on it without a wrapper
Direct(calls, w) ==
    IF calls = <<>> THEN w
    ELSE Direct(Tail(calls),
                IF Head(calls).call = "Write" THEN ResponseWrite(w)
                ELSE ResponseWriteHeader(w, Head(calls).code))

\* the client gets the status and the body it gets without the logger
SameResponse ==
    LET d == Direct(hcalls, NewResponseWriter)
    IN /\ rw.wroteHeader = d.wroteHeader
       /\ rw.code = d.code
       /\ rw.writes = d.writes

\* C21: LogRequest emits no record before next has returned and exactly one
\* after, whose status_code is the status the handler committed (200 when it
\* wrote none); the status and the body the client receives are those it
\* receives without the logger
C21_OneRecord ==
    /\ lpc = "next" => logged = <<>>
    /\ lpc = "done" => logged = <<Committed>>
    /\ lpc \in {"next", "done"} => SameResponse

\* C22: for a body that can be read, ReadRequestBody returns all its bytes and
\* no error, and a later full read of req.Body yields the same bytes; when the
\* read fails it returns the error "error reading request body: <cause>" and
\* an empty body, and a later read of req.Body succeeds and yields no bytes
C22_BodyRoundTrip ==
    last.op \in {"ReadRequestBody", "ReadAll"} /\ last.in.kind = "reader" =>
        IF last.in.failAfter < 0
        THEN /\ last.body = last.in.data
             /\ last.err = <<>>
             /\ last.op = "ReadAll" => last.again = last.in.data /\ last.againErr = <<>>
        ELSE /\ last.body = <<>>
             /\ last.err = <<"error reading request body: ">> \o last.in.cause
             /\ last.op = "ReadAll" => last.again = <<>> /\ last.againErr = <<>>

\* a body whose read fails after one byte: the error names the cause, and the
\* body read again is empty
C22_Witness ==
    /\ last.op = "ReadAll"
    /\ last.in = Reader(<<"a", "b">>, 1, <<"test error">>)
    /\ last.err = <<"error reading request body: ", "test error">>
    /\ last.again = <<>>
    /\ last.againErr = <<>>

\* C24: LogRequest calls next once for every request, also when reading the
\* request body fails: the failure is logged, the request record is emitted,
\* and the response is the handler's, not one of the logger
C24_NextOnce ==
    /\ lpc \in {"next", "done"} => req.nexts = 1 /\ SameResponse
    /\ lpc = "done" /\ sw.impl = "forwarding" =>
          /\ Len(logged) = 1
          /\ errors = IF req.in.failAfter >= 0 THEN <<Errorf(req.in.cause)>> ELSE <<>>

\* LogRequest of unnamed/part_011 has returned for a request whose body could
\* not be read, after the handler answered 201
C24_Witness ==
    /\ lpc = "done"
    /\ sw.impl = "forwarding"
    /\ req.in.failAfter = 0
    /\ req.nexts = 1
    /\ errors = <<<<"error reading request body: ", "test error">>>>
    /\ hcalls # <<>> /\ rw.code = 201
    /\ logged = <<201>>

\* the handlers that panic, among those that ran in the request
Panicking(trace) ==
    {h \in {panicHandler, latePanicHandler} : At(trace, "handler", h) # {}}

\* the error records of the recovery middleware in the request
PanicRecords(trace) == {k \in 1..Len(trace) : trace[k].ev = "recover"}

\* C26: the error record the recovery middleware emits when it intercepts a
\* panic carries the value that was passed to panic, and a stack trace
C26_FaultLogged ==
    Served =>
      \A k \in PanicRecords(last.trace) :
         /\ last.trace[k].stack_trace
         /\ \E h \in Panicking(last.trace) : last.trace[k].value = PanicValue(h)

\* the logging middleware the request entered
LoggersEntered(trace) ==
    {n \in {LogRequestMw, LogNewRequest} : At(trace, "pre", n) # {}}

\* a recovery middleware registered before the logger n caught a panic of
\* the request
RecoveredOutside(trace, n) ==
    \E rec \in Recoveries :
       \E i \in At(trace, "pre", rec), j \in At(trace, "pre", n), k \in At(trace, "recover", rec) :
          i < j /\ j < k

\* C28: every request a logger handled has the logger's request record, also
\* the request whose handler panicked under a recovery registered before the
\* logger
C28_RecordAlways ==
    Served /\ ~panicked =>
      \A n \in LoggersEntered(last.trace) : At(last.trace, "log", n) # {}

\* what holds of the request records: a request that returned from next
\* without a panic has the record of every logger it entered, and the logger
\* of example_test.go has emitted its record in any case
C28_RecordUnlessPanic ==
    Served =>
      \A n \in LoggersEntered(last.trace) :
         /\ n = LogNewRequest => At(last.trace, "log", n) # {}
         /\ At(last.trace, "log", n) = {} => RecoveredOutside(last.trace, n) \/ panicked

RECURSIVE Alone(_, _, _)
\* the statusWriter and the ResponseWriter of a request after the calls of
\* its handler, made with no other request being served
Alone(calls, w, under) ==
    IF calls = <<>> THEN [sw |-> w, rw |-> under]
    ELSE LET res == IF Head(calls).call = "Write"
                    THEN StatusWriterWrite(w, under)
                    ELSE StatusWriterWriteHeader(w, under, Head(calls).code)
         IN Alone(Tail(calls), res.sw, res.rw)

\* what request i alone gives, in the build of its statusWriter
AloneOf(i) ==
    Alone(conc.reqs[i].calls,
          NewStatusWriter(conc.sws[conc.reqs[i].sw].impl, i), NewResponseWriter)

\* C25: whatever the interleaving of the requests, each request has a
\* statusWriter of its own; the status it holds, the status logged and the
\* response are those the request's own calls give when it is served alone;
\* and a step of a request leaves the routers, their middleware lists and
\* route lists and the mux as they are
C25_RequestsIndependent ==
    /\ [](\A i \in Requests : conc.reqs[i].pc # "idle" =>
            /\ \A j \in Requests \ {i} : conc.reqs[j].pc # "idle" =>
                  conc.reqs[j].sw # conc.reqs[i].sw
            /\ conc.sws[conc.reqs[i].sw] = AloneOf(i).sw
            /\ conc.rws[i] = AloneOf(i).rw
            /\ conc.reqs[i].pc = "done" => conc.reqs[i].logged = <<AloneOf(i).sw.status>>)
    /\ [][conc' # conc =>
            /\ routers' = routers
            /\ arrays' = arrays
            /\ mux' = mux
            /\ regs' = regs]_vars

\* two requests are in their handlers at the same time, have written
\* different statuses, and the statusWriter of each holds its own
C25_Witness ==
    /\ \A i \in Requests : conc.reqs[i].pc = "next"
    /\ conc.reqs[1].calls = <<[call |-> "WriteHeader", code |-> 404]>>
    /\ conc.reqs[2].calls = <<[call |-> "WriteHeader", code |-> 201]>>
    /\ conc.sws[conc.reqs[1].sw].status = 404
    /\ conc.sws[conc.reqs[2].sw].status = 201
    /\ conc.rws[1].code = 404
    /\ conc.rws[2].code = 201

====
